---- MODULE Spec2Model ----
(***************************************************************************)
(* Buildbot data-access excerpt:                                           *)
(*   master/buildbot/db/build_data.py   BuildDataConnectorComponent        *)
(*   master/buildbot/util/sautils.py    withoutSqliteForeignKeys           *)
(*   master/buildbot/test/fakedb/builds.py  FakeBuildsComponent            *)
(* Database calls are modelled at statement granularity: every            *)
(* conn.execute(...) is one atomic step, and the steps of concurrently     *)
(* running thd() closures interleave.                                      *)
(***************************************************************************)
EXTENDS Integers, Sequences, FiniteSets, TLC

(* ------------------------------ bounds -------------------------------- *)
\* rejected inserts of one call are counted up to here
MaxAttempts == 2
\* older_than_timestamp ranges over 1..MaxTime
MaxTime == 2
\* nesting depth of withoutSqliteForeignKeys contexts explored
MaxDepth == 2
\* statements recorded on the connection log
MaxLog == 6
\* builds held by the fake builds store
MaxBuilds == 3
\* cap of the locks_duration_s accumulator of a fake build
MaxDuration == 1

(* ------------------------------ inputs -------------------------------- *)
\* buildbot.db.NULL (Python None, SQL NULL): distinct from every id, number
\* and timestamp
NULL == -1
Writers == {"w1", "w2"}
Deleters == {"d1"}
\* build ids used as setBuildData arguments; those of MissingBuilds have no
\* row in builds
BuildIds == {1, 2}
MissingBuilds == {3}
Names == {"a"}
\* (value, source) pairs written by the callers; they differ in both columns
Payloads == {<<(<<>>), "s1">>, <<(<<7>>), "s2">>}
Timestamps == 1..MaxTime
NoArgs == [buildid |-> 0, name |-> "", value |-> <<>>, source |-> ""]
Args == {[buildid |-> b, name |-> n, value |-> p[1], source |-> p[2]] :
           b \in BuildIds \cup MissingBuilds, n \in Names, p \in Payloads}

VARIABLES
  \* build_data.py
  build_data,     \* rows of table build_data
  builds,         \* table builds: id -> complete_at (NULL while running)
  dialect,        \* self.db._engine.dialect.name
  wpc, wargs,     \* per setBuildData call: position in thd, arguments
  attempts,       \* per running call: insert statements executed so far
  dpc, dts,       \* per deleteOldBuildData call: position, older_than_timestamp
  count_before,   \* per call: local count_before
  removed,        \* per call: rows its delete statement removed
  dret,           \* per call: returned value
  \* sautils.py
  conn_dialect,   \* connection.engine.dialect.name
  fk_disabled,    \* per connection: connection.fk_disabled
  engine_fk_disabled, \* connection.engine.fk_disabled (never assigned)
  foreign_keys,   \* per connection: sqlite pragma foreign_keys
  stack,          \* per connection: active contexts, innermost last
  log,            \* per connection: statements issued by exec_driver_sql
  outcome,        \* per connection: how the last context operation ended
  \* fakedb/builds.py
  fbuilds,        \* FakeBuildsComponent.builds
  now,            \* reactor.seconds()
  fret            \* value returned by the last call

dataVars == <<build_data, builds, dialect, wpc, wargs, attempts,
              dpc, dts, count_before, removed, dret>>
fkVars == <<conn_dialect, fk_disabled, engine_fk_disabled, foreign_keys,
            stack, log, outcome>>
fakeVars == <<fbuilds, now, fret>>
vars == <<dataVars, fkVars, fakeVars>>

Min(a, b) == IF a < b THEN a ELSE b

(* ===================== build_data.py ================================== *)

\* rows selected by (buildid == b) & (name == n)
RowsFor(tbl, b, n) == {r \in tbl : r.buildid = b /\ r.name = n}

\* the row written for the arguments of a call
RowOf(a) == [buildid |-> a.buildid, name |-> a.name, value |-> a.value,
             length |-> Len(a.value), source |-> a.source]

\* unique index on (buildid, name)
UniqueViolation(tbl, row) == RowsFor(tbl, row.buildid, row.name) # {}

\* foreign key build_data.buildid -> builds.id
ForeignKeyViolation(bs, row) == row.buildid \notin DOMAIN bs

\* the insert statement raises IntegrityError
InsertRaises(tbl, bs, row) == UniqueViolation(tbl, row) \/ ForeignKeyViolation(bs, row)

\* update_values without the 'length' column
UpdateStmt_staleLength(tbl, a) ==
  (tbl \ RowsFor(tbl, a.buildid, a.name)) \cup
  {[r EXCEPT !.value = a.value, !.source = a.source] :
      r \in RowsFor(tbl, a.buildid, a.name)}

\* build_data_table.update().where(...).values(update_values)
UpdateStmt(tbl, a) ==
  (tbl \ RowsFor(tbl, a.buildid, a.name)) \cup
  {[r EXCEPT !.value = a.value, !.length = Len(a.value), !.source = a.source] :
      r \in RowsFor(tbl, a.buildid, a.name)}

UpdateRowcount(tbl, a) == Cardinality(RowsFor(tbl, a.buildid, a.name))

\* Python None, comparable with the records a call returns
None == [none |-> TRUE]

\* getBuildData: the selected row as a BuildDataModel, or None
getBuildData(tbl, b, n) ==
  IF RowsFor(tbl, b, n) = {} THEN None
  ELSE LET row == CHOOSE r \in RowsFor(tbl, b, n) : TRUE
       IN [buildid |-> row.buildid, name |-> row.name, length |-> row.length,
           source |-> row.source, value |-> row.value]

\* setBuildData is called (no call of this caller is running): thd starts at
\* the top of the while loop
setBuildData(w, a) ==
  /\ wpc[w] \in {"idle", "done", "raised"}
  /\ wpc' = [wpc EXCEPT ![w] = "update"]
  /\ wargs' = [wargs EXCEPT ![w] = a]
  /\ attempts' = [attempts EXCEPT ![w] = 0]
  /\ UNCHANGED <<build_data, builds, dialect, dpc, dts, count_before, removed, dret>>
  /\ UNCHANGED <<fkVars, fakeVars>>

\* if r.rowcount > 0: return
RowcountPositive(rc) == rc > 0

\* except (sa.exc.IntegrityError, sa.exc.ProgrammingError)
Caught_nothing(exc) == FALSE
Caught(exc) == exc \in {"IntegrityError", "ProgrammingError"}

\* the update statement and the rowcount test
Update(w) ==
  /\ wpc[w] = "update"
  /\ build_data' = UpdateStmt(build_data, wargs[w])
  /\ IF RowcountPositive(UpdateRowcount(build_data, wargs[w]))
       THEN /\ wpc' = [wpc EXCEPT ![w] = "done"]
            /\ attempts' = [attempts EXCEPT ![w] = 0]
       ELSE /\ wpc' = [wpc EXCEPT ![w] = "insert"]
            /\ UNCHANGED attempts
  /\ UNCHANGED <<builds, dialect, wargs, dpc, dts, count_before, removed, dret>>
  /\ UNCHANGED <<fkVars, fakeVars>>

\* _insert_race_hook, then the insert statement inside try/except
Insert(w) ==
  /\ wpc[w] = "insert"
  /\ IF InsertRaises(build_data, builds, RowOf(wargs[w]))
       THEN IF Caught("IntegrityError")
              THEN /\ wpc' = [wpc EXCEPT ![w] = "update"]
                   /\ attempts' = [attempts EXCEPT ![w] = Min(@ + 1, MaxAttempts)]
                   /\ UNCHANGED build_data
              ELSE /\ wpc' = [wpc EXCEPT ![w] = "raised"]
                   /\ attempts' = [attempts EXCEPT ![w] = 0]
                   /\ UNCHANGED build_data
       ELSE /\ wpc' = [wpc EXCEPT ![w] = "done"]
            /\ attempts' = [attempts EXCEPT ![w] = 0]
            /\ build_data' = build_data \cup {RowOf(wargs[w])}
  /\ UNCHANGED <<builds, dialect, wargs, dpc, dts, count_before, removed, dret>>
  /\ UNCHANGED <<fkVars, fakeVars>>

\* (complete_at >= older_than_timestamp) | (complete_at == NULL)
NotOld(c, ts) == (c # NULL /\ c >= ts) \/ c = NULL

\* sqlite: delete where buildid NOT IN (select builds.id where NotOld)
DeleteSqlite(tbl, bs, ts) ==
  {r \in tbl : r.buildid \in {b \in DOMAIN bs : NotOld(bs[b], ts)}}

\* other engines: delete ... where builds.id == build_data.buildid and NotOld
DeleteJoin(tbl, bs, ts) ==
  {r \in tbl : ~(\E b \in DOMAIN bs : b = r.buildid /\ NotOld(bs[b], ts))}

\* the table after the delete statement of the engine's dialect
DeleteStmt(d, tbl, bs, ts) ==
  IF d = "sqlite" THEN DeleteSqlite(tbl, bs, ts) ELSE DeleteJoin(tbl, bs, ts)

count_build_datum(tbl) == Cardinality(tbl)

deleteOldBuildData(d, ts) ==
  /\ dpc[d] \in {"idle", "done"}
  /\ dpc' = [dpc EXCEPT ![d] = "count_before"]
  /\ dts' = [dts EXCEPT ![d] = ts]
  /\ count_before' = [count_before EXCEPT ![d] = 0]
  /\ removed' = [removed EXCEPT ![d] = 0]
  /\ dret' = [dret EXCEPT ![d] = 0]
  /\ UNCHANGED <<build_data, builds, dialect, wpc, wargs, attempts>>
  /\ UNCHANGED <<fkVars, fakeVars>>

CountBefore(d) ==
  /\ dpc[d] = "count_before"
  /\ count_before' = [count_before EXCEPT ![d] = count_build_datum(build_data)]
  /\ dpc' = [dpc EXCEPT ![d] = "delete"]
  /\ UNCHANGED <<build_data, builds, dialect, wpc, wargs, attempts,
                 dts, removed, dret>>
  /\ UNCHANGED <<fkVars, fakeVars>>

Delete(d) ==
  /\ dpc[d] = "delete"
  /\ build_data' = DeleteStmt(dialect, build_data, builds, dts[d])
  /\ removed' = [removed EXCEPT ![d] = Cardinality(build_data \ build_data')]
  /\ dpc' = [dpc EXCEPT ![d] = "count_after"]
  /\ UNCHANGED <<builds, dialect, wpc, wargs, attempts,
                 dts, count_before, dret>>
  /\ UNCHANGED <<fkVars, fakeVars>>

CountAfter(d) ==
  /\ dpc[d] = "count_after"
  /\ dret' = [dret EXCEPT ![d] = count_before[d] - count_build_datum(build_data)]
  /\ dpc' = [dpc EXCEPT ![d] = "done"]
  /\ dts' = [dts EXCEPT ![d] = 0]
  /\ count_before' = [count_before EXCEPT ![d] = 0]
  /\ UNCHANGED <<build_data, builds, dialect, wpc, wargs, attempts, removed>>
  /\ UNCHANGED <<fkVars, fakeVars>>

InitData ==
  /\ build_data = {}
  /\ builds = (1 :> 1) @@ (2 :> NULL)
  /\ dialect \in {"sqlite", "other"}
  /\ wpc = [w \in Writers |-> "idle"]
  /\ wargs = [w \in Writers |-> NoArgs]
  /\ attempts = [w \in Writers |-> 0]
  /\ dpc = [d \in Deleters |-> "idle"]
  /\ dts = [d \in Deleters |-> 0]
  /\ count_before = [d \in Deleters |-> 0]
  /\ removed = [d \in Deleters |-> 0]
  /\ dret = [d \in Deleters |-> 0]

(* ===================== util/sautils.py ================================ *)

\* connections of the one engine
Connections == {"c1", "c2"}

\* assert not getattr(connection.engine, 'fk_disabled', False)
AssertionHolds(c) == ~engine_fk_disabled

\* with withoutSqliteForeignKeys(connection): runs up to the yield
Enter(c) ==
  /\ Len(stack[c]) < MaxDepth
  /\ Len(log[c]) + 2 * (Len(stack[c]) + 1) <= MaxLog
  /\ IF conn_dialect # "sqlite"
       THEN /\ stack' = [stack EXCEPT ![c] = Append(@, "body")]
            /\ outcome' = [outcome EXCEPT ![c] = "entered"]
            /\ UNCHANGED <<fk_disabled, foreign_keys, log>>
       ELSE IF ~AssertionHolds(c)
         THEN /\ outcome' = [outcome EXCEPT ![c] = "AssertionError"]
              /\ UNCHANGED <<stack, fk_disabled, foreign_keys, log>>
         ELSE /\ fk_disabled' = [fk_disabled EXCEPT ![c] = TRUE]
              /\ log' = [log EXCEPT ![c] = Append(@, "pragma foreign_keys=OFF")]
              /\ foreign_keys' = [foreign_keys EXCEPT ![c] = "OFF"]
              /\ stack' = [stack EXCEPT ![c] = Append(@, "body")]
              /\ outcome' = [outcome EXCEPT ![c] = "entered"]
  /\ UNCHANGED <<conn_dialect, engine_fk_disabled>>
  /\ UNCHANGED <<dataVars, fakeVars>>

\* the innermost body ends, by falling off its end ("returned") or by an
\* exception ("raised"): the generator resumes after its yield
Exit(c, how) ==
  /\ Len(stack[c]) > 0
  /\ stack' = [stack EXCEPT ![c] = SubSeq(@, 1, Len(@) - 1)]
  /\ outcome' = [outcome EXCEPT ![c] = how]
  /\ IF conn_dialect # "sqlite"
       THEN UNCHANGED <<fk_disabled, foreign_keys, log>>
       ELSE /\ fk_disabled' = [fk_disabled EXCEPT ![c] = FALSE]
            /\ log' = [log EXCEPT ![c] = Append(@, "pragma foreign_keys=ON")]
            /\ foreign_keys' = [foreign_keys EXCEPT ![c] = "ON"]
  /\ UNCHANGED <<conn_dialect, engine_fk_disabled>>
  /\ UNCHANGED <<dataVars, fakeVars>>

InitFK ==
  /\ conn_dialect \in {"sqlite", "other"}
  /\ fk_disabled = [c \in Connections |-> FALSE]
  /\ engine_fk_disabled = FALSE
  /\ foreign_keys = [c \in Connections |-> "ON"]
  /\ stack = [c \in Connections |-> <<>>]
  /\ log = [c \in Connections |-> <<>>]
  /\ outcome = [c \in Connections |-> "none"]

NextFK ==
  \/ \E c \in Connections : Enter(c)
  \/ \E c \in Connections, how \in {"returned", "raised"} : Exit(c, how)

(* ===================== test/fakedb/builds.py ========================== *)
BuilderIds == {1, 2}
StateStrings == {"starting", "building"}
Results == {0}
Durations == {1}
\* first id tried by _newId
FirstId == 100
FakeIds == FirstId .. (FirstId + MaxBuilds)

\* _newId: the first id from 100 on that is not a key of self.builds
RECURSIVE NewIdFrom(_, _)
NewIdFrom(bs, id) == IF id \in DOMAIN bs THEN NewIdFrom(bs, id + 1) ELSE id
newId_first(bs) == FirstId
newId(bs) == NewIdFrom(bs, FirstId)

RECURSIVE MaxOf(_)
MaxOf(S) == IF S = {} THEN 0
            ELSE LET x == CHOOSE y \in S : TRUE
                     m == MaxOf(S \ {x})
                 IN IF x > m THEN x ELSE m

\* max([0] + [r['number'] for r in builds.values() if r['builderid'] == builderid]) + 1
NextNumber(bs, builderid) ==
  MaxOf({0} \cup {bs[i].number : i \in {j \in DOMAIN bs : bs[j].builderid = builderid}}) + 1

addBuild(builderid, state_string) ==
  /\ Cardinality(DOMAIN fbuilds) < MaxBuilds
  /\ LET id == newId(fbuilds)
         number == NextNumber(fbuilds, builderid)
     IN /\ fbuilds' = [i \in DOMAIN fbuilds \cup {id} |->
                         IF i = id
                           THEN [id |-> id, number |-> number, builderid |-> builderid,
                                 state_string |-> state_string, started_at |-> now,
                                 locks_duration_s |-> 0, complete_at |-> NULL,
                                 results |-> NULL]
                           ELSE fbuilds[i]]
        /\ fret' = [id |-> id, number |-> number]
  /\ UNCHANGED now
  /\ UNCHANGED <<dataVars, fkVars>>

setBuildStateString(buildid, state_string) ==
  /\ fbuilds' = IF buildid \in DOMAIN fbuilds
                  THEN [fbuilds EXCEPT ![buildid].state_string = state_string]
                  ELSE fbuilds
  /\ fret' = None
  /\ UNCHANGED now
  /\ UNCHANGED <<dataVars, fkVars>>

finishBuild(buildid, results) ==
  /\ fbuilds' = IF buildid \in DOMAIN fbuilds
                  THEN [fbuilds EXCEPT ![buildid].complete_at = now,
                                       ![buildid].results = results]
                  ELSE fbuilds
  /\ fret' = None
  /\ UNCHANGED now
  /\ UNCHANGED <<dataVars, fkVars>>

add_build_locks_duration(buildid, duration_s) ==
  /\ buildid \in DOMAIN fbuilds => fbuilds[buildid].locks_duration_s + duration_s <= MaxDuration
  /\ fbuilds' = IF buildid \in DOMAIN fbuilds
                  THEN [fbuilds EXCEPT ![buildid].locks_duration_s = @ + duration_s]
                  ELSE fbuilds
  /\ fret' = None
  /\ UNCHANGED now
  /\ UNCHANGED <<dataVars, fkVars>>

\* setUp: an empty store; the test reactor's clock stands still
InitFake ==
  /\ fbuilds = <<>>
  /\ now = 1
  /\ fret = None

NextFake ==
  \/ \E b \in BuilderIds, s \in StateStrings : addBuild(b, s)
  \/ \E i \in FakeIds, s \in StateStrings : setBuildStateString(i, s)
  \/ \E i \in FakeIds, r \in Results : finishBuild(i, r)
  \/ \E i \in FakeIds, d \in Durations : add_build_locks_duration(i, d)

\* the components at rest, as each specification leaves the ones it does not run
RestData ==
  /\ InitData /\ dialect = "sqlite"
RestFK ==
  /\ InitFK /\ conn_dialect = "sqlite"
RestFake == InitFake

Init == InitData /\ RestFK /\ RestFake
InitSautils == RestData /\ InitFK /\ RestFake
InitFakeDB == RestData /\ RestFK /\ InitFake

WriterStep(w) == Update(w) \/ Insert(w)
DeleterStep(d) == CountBefore(d) \/ Delete(d) \/ CountAfter(d)

NoCallRunning == \A w \in Writers : wpc[w] \in {"idle", "done", "raised"}

\* a setBuildData call that starts when no other one is running
SerialSetBuildData(w, a) == NoCallRunning /\ setBuildData(w, a)

\* writers and deleters, interleaved statement by statement
NextData ==
  \/ \E w \in Writers : \E a \in Args : setBuildData(w, a)
  \/ \E w \in Writers : Update(w)
  \/ \E w \in Writers : Insert(w)
  \/ \E d \in Deleters : \E ts \in Timestamps : deleteOldBuildData(d, ts)
  \/ \E d \in Deleters : CountBefore(d)
  \/ \E d \in Deleters : Delete(d)
  \/ \E d \in Deleters : CountAfter(d)

\* concurrent setBuildData calls only
NextWriters ==
  \/ \E w \in Writers : \E a \in Args : setBuildData(w, a)
  \/ \E w \in Writers : Update(w)
  \/ \E w \in Writers : Insert(w)

\* setBuildData calls one after the other
NextSerial ==
  \/ \E w \in Writers : \E a \in Args : SerialSetBuildData(w, a)
  \/ \E w \in Writers : Update(w)
  \/ \E w \in Writers : Insert(w)

Spec == Init /\ [][NextData]_vars
SpecFK == InitSautils /\ [][NextFK]_vars
SpecFake == InitFakeDB /\ [][NextFake]_vars
SpecWriters == Init /\ [][NextWriters]_vars
SpecSerial == Init /\ [][NextSerial]_vars
\* the thread pool runs every started thd to its next statement
FairSpec ==
  /\ Init /\ [][NextData]_vars
  /\ \A w \in Writers : WF_vars(WriterStep(w))
  /\ \A d \in Deleters : WF_vars(DeleterStep(d))

(* ------------------------- claims: build_data.py ---------------------- *)
KeyOf(a) == <<a.buildid, a.name>>
OtherRows(tbl, a) == tbl \ RowsFor(tbl, a.buildid, a.name)
ModelOf(a) == [buildid |-> a.buildid, name |-> a.name, length |-> Len(a.value),
               source |-> a.source, value |-> a.value]

\* C1: a setBuildData call that runs without interleaving is an upsert: its
\* statements before the last leave the table as it was, and its last statement
\* leaves exactly one row for (buildid, name) holding value, len(value) and
\* source, leaves all other rows unchanged, and getBuildData then returns
\* exactly that value, length and source.
C1_Upsert ==
  [][\A w \in Writers :
       (wpc[w] \in {"update", "insert"} /\ wpc'[w] # wpc[w]) =>
         IF wpc'[w] = "done"
           THEN /\ RowsFor(build_data', wargs[w].buildid, wargs[w].name)
                     = {RowOf(wargs[w])}
                /\ OtherRows(build_data', wargs[w]) = OtherRows(build_data, wargs[w])
                /\ getBuildData(build_data', wargs[w].buildid, wargs[w].name)
                     = ModelOf(wargs[w])
           ELSE build_data' = build_data]_vars

\* C1 witness: two serial calls on the same key with different values have both
\* returned (the second one updated the row), next to a row of another key.
C1_Witness ==
  /\ wpc["w1"] = "done" /\ wpc["w2"] = "done"
  /\ KeyOf(wargs["w1"]) = KeyOf(wargs["w2"])
  /\ wargs["w1"].value # wargs["w2"].value
  /\ Cardinality(build_data) = 2

CompleteRow(r) ==
  /\ r.length = Len(r.value)
  /\ \E p \in Payloads : r.value = p[1] /\ r.source = p[2]

\* C2: with two interleaved writers no call surfaces the uniqueness violation,
\* no key ever has two rows, every row is the complete (value, length, source)
\* of one call, and once both calls on a key have returned its row is the
\* triple of one of the two.
C2_RaceTolerated ==
  /\ \A w \in Writers : wpc[w] # "raised"
  /\ \A b \in BuildIds \cup MissingBuilds, n \in Names :
       Cardinality(RowsFor(build_data, b, n)) <= 1
  /\ \A r \in build_data : CompleteRow(r)
  /\ \A w, v \in Writers :
       (w # v /\ wpc[w] = "done" /\ wpc[v] = "done" /\ KeyOf(wargs[w]) = KeyOf(wargs[v]))
         => RowsFor(build_data, wargs[w].buildid, wargs[w].name)
              \in {{RowOf(wargs[w])}, {RowOf(wargs[v])}}

\* C2 witness: w2's insert landed between w1's update and w1's insert, w1's
\* insert was rejected and w1 is back at its update.
C2_Witness ==
  /\ wpc["w1"] = "update" /\ attempts["w1"] = 1
  /\ wpc["w2"] = "done"
  /\ KeyOf(wargs["w1"]) = KeyOf(wargs["w2"])
  /\ wargs["w1"].value # wargs["w2"].value
  /\ wargs["w1"].buildid \in DOMAIN builds
  /\ RowsFor(build_data, wargs["w1"].buildid, wargs["w1"].name) = {RowOf(wargs["w2"])}

\* C3: a setBuildData call executes at most two insert statements, whatever
\* the other writers and deleters do: no call that has executed two is about
\* to execute another.
C3_AtMostTwoInserts ==
  \A w \in Writers : wpc[w] = "insert" => attempts[w] < 2

\* C3, the race that leads to it: a call whose build exists has had two
\* inserts rejected by competing inserts (a deleter removed the competing row
\* in between) and is about to execute its third.
C3_ThirdInsertAfterRaces ==
  \E w \in Writers :
    /\ wpc[w] = "insert" /\ attempts[w] = 2
    /\ wargs[w].buildid \in DOMAIN builds

\* a build completed before the timestamp
IsOld(bs, b, ts) == b \in DOMAIN bs /\ bs[b] # NULL /\ bs[b] < ts

\* C4: the delete statement of deleteOldBuildData removes exactly the rows of
\* builds completed before older_than_timestamp, on either dialect.
C4_DeletesOnlyOld ==
  [][\A d \in Deleters :
       (dpc[d] = "delete" /\ dpc'[d] = "count_after") =>
         build_data' = {r \in build_data : ~IsOld(builds, r.buildid, dts[d])}]_vars

\* C5: the sqlite branch and the join-delete branch remove the same rows and
\* give the same count, for every timestamp.
C5_BranchesAgree ==
  \A ts \in Timestamps :
    /\ DeleteSqlite(build_data, builds, ts) = DeleteJoin(build_data, builds, ts)
    /\ count_build_datum(DeleteSqlite(build_data, builds, ts))
         = count_build_datum(DeleteJoin(build_data, builds, ts))

\* C6: every started setBuildData call eventually returns or raises.
C6_Terminates ==
  \A w \in Writers :
    (wpc[w] \in {"update", "insert"}) ~> (wpc[w] \in {"done", "raised"})

\* C8: the value deleteOldBuildData returns is the number of rows its delete
\* removed, and is not negative.
C8_ReturnsRemoved ==
  \A d \in Deleters : dpc[d] = "done" => (dret[d] = removed[d] /\ dret[d] >= 0)

(* ------------------------- claims: sautils.py ------------------------- *)
\* C7: on a sqlite connection the context is never active twice: a nested
\* entry fails the assertion and issues no second 'pragma foreign_keys=OFF'.
C7_NotReentrant ==
  conn_dialect = "sqlite" =>
    \A c \in Connections :
      /\ Len(stack[c]) <= 1
      /\ \A i \in 1..(Len(log[c]) - 1) :
           ~(log[c][i] = "pragma foreign_keys=OFF" /\ log[c][i + 1] = "pragma foreign_keys=OFF")

\* C9: on sqlite, with no context active on a connection the last pragma
\* issued is foreign_keys=ON and fk_disabled is False, and foreign keys are OFF
\* exactly while a body runs; on other engines nothing is issued and nothing
\* changes.
C9_OffExactlyInBody ==
  \A c \in Connections :
    /\ conn_dialect = "sqlite" =>
         /\ (Len(stack[c]) > 0) <=> (foreign_keys[c] = "OFF")
         /\ (Len(stack[c]) = 0 /\ log[c] # <<>>) =>
              (log[c][Len(log[c])] = "pragma foreign_keys=ON" /\ ~fk_disabled[c])
    /\ conn_dialect # "sqlite" =>
         (log[c] = <<>> /\ ~fk_disabled[c] /\ foreign_keys[c] = "ON")

(* ------------------------- claims: fakedb/builds.py ------------------- *)
\* C10: every addBuild returns the smallest id from 100 on that was not a key
\* of the store and one more than the largest number of the builder's builds
\* (1 when it has none), stores a build with complete_at and results None,
\* and leaves the stored builds as they were; no two stored builds ever share
\* an id or a (builderid, number) pair.
C10_AddBuildFresh ==
  [][/\ (fret' # None /\ (fret' # fret \/ fbuilds' # fbuilds)) =>
          /\ fret'.id \notin DOMAIN fbuilds
          /\ fret'.id >= FirstId
          /\ \A i \in FirstId .. (fret'.id - 1) : i \in DOMAIN fbuilds
          /\ DOMAIN fbuilds' = DOMAIN fbuilds \cup {fret'.id}
          /\ \A i \in DOMAIN fbuilds : fbuilds'[i] = fbuilds[i]
          /\ fbuilds'[fret'.id].id = fret'.id
          /\ fbuilds'[fret'.id].number = fret'.number
          /\ \A i \in DOMAIN fbuilds :
               fbuilds[i].builderid = fbuilds'[fret'.id].builderid
                 => fbuilds[i].number < fret'.number
          /\ \/ fret'.number = 1
             \/ \E i \in DOMAIN fbuilds :
                  /\ fbuilds[i].builderid = fbuilds'[fret'.id].builderid
                  /\ fbuilds[i].number = fret'.number - 1
          /\ fbuilds'[fret'.id].complete_at = NULL
          /\ fbuilds'[fret'.id].results = NULL
     /\ \A i, j \in DOMAIN fbuilds' :
          /\ fbuilds'[i].id = i
          /\ (i # j) => <<fbuilds'[i].builderid, fbuilds'[i].number>>
                          # <<fbuilds'[j].builderid, fbuilds'[j].number>>]_vars

\* C10 witness: three builds are stored, two of one builder numbered 1 and 2,
\* one of them finished, and the last call was an addBuild.
C10_Witness ==
  /\ DOMAIN fbuilds = {100, 101, 102}
  /\ fbuilds[100].builderid = fbuilds[102].builderid
  /\ fbuilds[100].builderid # fbuilds[101].builderid
  /\ fbuilds[102].number = 2 /\ fbuilds[101].number = 1
  /\ fbuilds[100].complete_at # NULL
  /\ fret = [id |-> 102, number |-> 2]
====
